---- MODULE Spec2Model ----
(***************************************************************************)
(* State-machine model of the Framework LED matrix controller:             *)
(*   src/src/main.rs     MyApp (two displays, scheduler tick, controls)    *)
(*   src/src/device.rs   Device (serial link, send)                        *)
(*   src/src/presets.rs  PresetManager, image_data_to_command              *)
(*   src/src/utils.rs    clock / battery renderers                         *)
(*   src/src/commands.rs protocol constants and encoders                   *)
(*   src/src/stats.rs    Stats (CPU / RAM sampler)                         *)
(* Bytes are naturals 0..255; a Vec<u8> is a sequence of bytes (1-based    *)
(* here, so source index i is element i+1).                                *)
(***************************************************************************)
EXTENDS Integers, Sequences, FiniteSets

VARIABLES
    connected,      \* left_connected / right_connected
    device,         \* left_device / right_device: TRUE = Some(handle), FALSE = None
    stats,          \* stats: TRUE = Some(sampler), FALSE = None
    cpu_percent,    \* last sampled CPU percentage
    ram_percent,    \* last sampled RAM percentage
    preset,         \* left_preset / right_preset: the mode string
    brightness,     \* left_brightness / right_brightness
    idle_frame,     \* shared idle animation counter (u8)
    presets,        \* preset_manager.presets: HashMap<String, CustomPreset>
    sent,           \* per display: the byte vectors handed to Device::send by the last operation
    wrote,          \* per display: outcome of port.write_all in the last operation
    result,         \* what the last operation returned to its caller
    ticks,          \* the (frame, idle pattern) pairs of the most recent ticks, oldest first
    picked,         \* per display: whether its mode was picked among the built-in or the custom entries
    saved,          \* per name: the bitmap of its latest accepted save, None after a delete
    call            \* the call in progress: a pure function's input and output, or the
                    \* position, guards and inputs of a tick taken statement by statement

vars == <<connected, device, stats, cpu_percent, ram_percent, preset, brightness,
          idle_frame, presets, sent, wrote, result, ticks, saved, picked, call>>

appVars == <<connected, device, stats, cpu_percent, ram_percent, preset, brightness,
             idle_frame, presets, sent, wrote, result, ticks, saved, picked>>

(***************************************************************************)
(* Program constants                                                       *)
(***************************************************************************)
MAGIC1 == 50
MAGIC2 == 172
MATRIX_WIDTH == 9
MATRIX_HEIGHT == 34
U8 == 256
DEFAULT_BRIGHTNESS == 120
CMD_STAGE_COL == 7
CMD_FLUSH_COLS == 8
CMD_IDLE == 20

ImageSize == MATRIX_WIDTH * MATRIX_HEIGHT

Sides == {"left", "right"}

Other(s) == IF s = "left" THEN "right" ELSE "left"

BuiltInModes == {"cpu", "ram", "idle", "clock", "battery", "gradient", "double_gradient",
                 "zigzag", "lotus_h", "lotus_v", "full_brightness", "panic"}

(***************************************************************************)
(* Bounds of the model                                                     *)
(***************************************************************************)
MaxTicks == 2       \* ticks taken in the capped specifications
MaxSeed == 10       \* distinct test images per length in the encoder specification
HistLen == 13       \* ticks remembered in `ticks`

\* A test image of length len: its i-th byte is (seed * i) mod 256.
Image(len, seed) == [i \in 1..len |-> (seed * i) % U8]

ZeroImage == [i \in 1..ImageSize |-> 0]

(***************************************************************************)
(* Option values                                                           *)
(***************************************************************************)
None == [some |-> FALSE]

Some(v) == [some |-> TRUE, v |-> v]

(***************************************************************************)
(* Protocol encoders (commands.rs, main.rs "Command generators")           *)
(***************************************************************************)
\* a brightness frame under the pattern opcode
brightness_cmd_as_pattern(level) == <<MAGIC1, MAGIC2, 1, level>>

brightness_cmd(level) == <<MAGIC1, MAGIC2, 0, level>>

pattern_percentage(value) == <<MAGIC1, MAGIC2, 1, 0, value>>

pattern_gradient == <<MAGIC1, MAGIC2, 1, 1>>

pattern_double_gradient == <<MAGIC1, MAGIC2, 1, 2>>

pattern_lotus_horizontal == <<MAGIC1, MAGIC2, 1, 3>>

\* a zigzag that sends the lotus-horizontal id
pattern_zigzag_as_lotus == <<MAGIC1, MAGIC2, 1, 3>>

pattern_zigzag == <<MAGIC1, MAGIC2, 1, 4>>

pattern_full_brightness == <<MAGIC1, MAGIC2, 1, 5>>

pattern_panic == <<MAGIC1, MAGIC2, 1, 6>>

pattern_lotus_vertical == <<MAGIC1, MAGIC2, 1, 7>>

\* an idle pattern that advances every 3 ticks
IdlePattern_every3(frame) == (frame \div 3) % 3

\* (self.idle_frame / 4) % 3
IdlePattern(frame) == (frame \div 4) % 3

idle_cmd(frame) == <<MAGIC1, MAGIC2, CMD_IDLE, IdlePattern(frame)>>

(***************************************************************************)
(* presets.rs: image_data_to_command                                       *)
(***************************************************************************)
\* an index that walks the image column-major
PixelIndex_transposed(x, y) == y + x * MATRIX_HEIGHT

\* idx = x + y * MATRIX_WIDTH  (0-based)
PixelIndex(x, y) == x + y * MATRIX_WIDTH

\* the inner loop: the 34 pixels of column x, top to bottom
ColumnPixels(image_data, x) ==
    [r \in 1..MATRIX_HEIGHT |-> image_data[PixelIndex(x, r - 1) + 1]]

\* one pass of the outer loop: header of column x, then its pixels
StageColumn(image_data, x) ==
    <<MAGIC1, MAGIC2, CMD_STAGE_COL, x>> \o ColumnPixels(image_data, x)

RECURSIVE StageColumnsFrom(_, _)
\* the outer loop, for x in from..MATRIX_WIDTH-1, appending in order
StageColumnsFrom(image_data, x) ==
    IF x >= MATRIX_WIDTH THEN <<>>
    ELSE StageColumn(image_data, x) \o StageColumnsFrom(image_data, x + 1)

image_data_to_command(image_data) ==
    IF Len(image_data) # MATRIX_WIDTH * MATRIX_HEIGHT THEN <<>>
    ELSE StageColumnsFrom(image_data, 0) \o <<MAGIC1, MAGIC2, CMD_FLUSH_COLS, 0>>

(***************************************************************************)
(* utils.rs: clock and battery renderers                                   *)
(***************************************************************************)
\* a bit test that counts bits from the most significant end
BitSet_from_msb(number, bit) == (number \div (2 ^ (7 - bit))) % 2 = 1

\* (number & (1 << bit)) != 0
BitSet(number, bit) == (number \div (2 ^ bit)) % 2 = 1

RECURSIVE RenderBits(_, _, _, _, _)
\* render_binary_number's loop, from `bit` up to 7
RenderBits(image_data, number, col_start, row_start, bit) ==
    IF bit > 7 THEN image_data
    ELSE LET level == IF BitSet(number, bit) THEN 200 ELSE 30
             row == row_start + (7 - bit)
             idx == col_start + row * MATRIX_WIDTH
             next == IF row < MATRIX_HEIGHT /\ col_start + 1 < MATRIX_WIDTH
                     THEN [image_data EXCEPT ![idx + 1] = level, ![idx + 2] = level]
                     ELSE image_data
         IN RenderBits(next, number, col_start, row_start, bit + 1)

render_binary_number(image_data, number, col_start, row_start) ==
    RenderBits(image_data, number, col_start, row_start, 0)

render_clock(hours, minutes) ==
    render_binary_number(render_binary_number(ZeroImage, hours, 0, 0), minutes, 0, 17)

Min(a, b) == IF a < b THEN a ELSE b

\* a bar that fills from the top row down
render_battery_bar_top_down(image_data, percentage_in) ==
    LET percentage == Min(percentage_in, 100)
        filled_rows == Min((percentage * MATRIX_HEIGHT) \div 100, MATRIX_HEIGHT)
        tier == IF percentage > 50 THEN 100 ELSE IF percentage > 20 THEN 150 ELSE 255
    IN [i \in 1..Len(image_data) |->
            LET row == (i - 1) \div MATRIX_WIDTH
                col == (i - 1) % MATRIX_WIDTH
            IN IF col < 2
               THEN (IF row < filled_rows THEN tier ELSE 20)
               ELSE image_data[i]]

render_battery_bar(image_data, percentage_in) ==
    LET percentage == Min(percentage_in, 100)
        filled_rows == Min((percentage * MATRIX_HEIGHT) \div 100, MATRIX_HEIGHT)
        tier == IF percentage > 50 THEN 100 ELSE IF percentage > 20 THEN 150 ELSE 255
    IN [i \in 1..Len(image_data) |->
            LET row == (i - 1) \div MATRIX_WIDTH
                col == (i - 1) % MATRIX_WIDTH
            IN IF col < 2
               THEN (IF MATRIX_HEIGHT - row <= filled_rows THEN tier ELSE 20)
               ELSE image_data[i]]

\* reading is get_battery_percentage() after `as u8`: [some |-> FALSE] is None
\* (unwrap_or(100.0)), [some |-> TRUE, v |-> p] is Some(p)
render_battery(reading) ==
    LET percent == IF reading.some THEN reading.v ELSE 100
    IN render_binary_number(render_battery_bar(ZeroImage, percent), percent, 0, 8)

(***************************************************************************)
(* presets.rs: PresetManager over HashMap<String, CustomPreset>            *)
(***************************************************************************)
EmptyStore == <<>>

\* an insert that keeps an entry already present (entry().or_insert)
MapInsert_keep_existing(m, k, v) == [x \in (DOMAIN m) \cup {k} |-> IF x \in DOMAIN m THEN m[x] ELSE v]

\* HashMap::insert: the entry under key k is v afterwards, other keys untouched
MapInsert(m, k, v) == [x \in (DOMAIN m) \cup {k} |-> IF x = k THEN v ELSE m[x]]

\* HashMap::remove: no entry under key k afterwards, other keys untouched
MapRemove(m, k) == [x \in (DOMAIN m) \ {k} |-> m[x]]

CustomPreset(name, image_data) == [name |-> name, image_data |-> image_data]

get_preset(store, name) ==
    IF name \in DOMAIN store THEN Some(store[name].image_data) ELSE None

list_presets(store) == DOMAIN store

\* a save_preset that inserts before it checks the size
save_preset_insert_first(store, name, image_data, persistOk) ==
    LET inserted == [x \in (DOMAIN store) \cup {name} |->
                        IF x = name THEN [name |-> name, image_data |-> image_data]
                        ELSE store[x]]
    IN IF Len(image_data) # MATRIX_WIDTH * MATRIX_HEIGHT
       THEN [ret |-> "ErrSize", store |-> inserted, persist |-> "none"]
       ELSE IF persistOk
            THEN [ret |-> "Ok", store |-> inserted, persist |-> "ok"]
            ELSE [ret |-> "ErrPersist", store |-> inserted, persist |-> "failed"]

\* save_preset: the value returned, the map afterwards, and the outcome of save_to_file
\* ("none" when it is not called); persistOk is whether fs::write succeeds
save_preset(store, name, image_data, persistOk) ==
    IF Len(image_data) # MATRIX_WIDTH * MATRIX_HEIGHT
    THEN [ret |-> "ErrSize", store |-> store, persist |-> "none"]
    ELSE LET inserted == MapInsert(store, name, CustomPreset(name, image_data))
         IN IF persistOk
            THEN [ret |-> "Ok", store |-> inserted, persist |-> "ok"]
            ELSE [ret |-> "ErrPersist", store |-> inserted, persist |-> "failed"]

\* delete_preset: remove, then save_to_file()?
delete_preset(store, name, persistOk) ==
    LET removed == MapRemove(store, name)
    IN IF persistOk
       THEN [ret |-> "Ok", store |-> removed, persist |-> "ok"]
       ELSE [ret |-> "ErrPersist", store |-> removed, persist |-> "failed"]

(***************************************************************************)
(* device.rs: Device::send.  `let _ = self.port.write_all(&data);` drops   *)
(* the io::Result: the caller gets () and the call never unwinds.          *)
(***************************************************************************)
\* a send that unwraps the io::Result: a failed write unwinds out of the caller
Device_send_unwrap(data, writeOk) ==
    [wrote |-> IF writeOk THEN "ok" ELSE "failed", ret |-> "unit", unwound |-> ~writeOk]

Device_send(data, writeOk) ==
    [wrote |-> IF writeOk THEN "ok" ELSE "failed", ret |-> "unit", unwound |-> FALSE]

(***************************************************************************)
(* stats.rs: Stats::cpu_usage / Stats::ram_usage.  A reading is the f32 of  *)
(* sysinfo with its fraction dropped (the `as u8` cast truncates).          *)
(***************************************************************************)
Max(a, b) == IF a > b THEN a ELSE b

\* f32::clamp(lo, hi)
clamp(x, lo, hi) == Max(lo, Min(x, hi))

\* a cpu_usage that casts without clamping to 0..100 (`as u8` saturates at 0 and 255)
cpu_usage_cast_only(usage) == Min(clamp(usage, 0, U8 - 1), 255)

\* (usage.clamp(0.0, 100.0) as u8).min(255)
cpu_usage(usage) == Min(clamp(usage, 0, 100), 255)

\* used / total * 100.0 when total > 0, else 0.0; then as cpu_usage
ram_usage(used_memory, total_memory) ==
    LET usage == IF total_memory > 0 THEN (used_memory * 100) \div total_memory ELSE 0
    IN Min(clamp(usage, 0, 100), 255)

(***************************************************************************)
(* Inputs of the model                                                     *)
(***************************************************************************)
\* names typed into the editor: a fresh name and one equal to a built-in mode
PresetNames == {"a", "idle"}

\* bitmaps the editor can hold: two full-size ones, and one of the wrong size
\* (editor_image takes whatever get_preset returns for a preset loaded from the file)
GoodImages == {Image(ImageSize, 1), Image(ImageSize, 7)}

BadImage == Image(ImageSize - 1, 1)

EditorImages == GoodImages \cup {BadImage}

\* load_from_file: Self::new() when the file is missing or unreadable, otherwise
\* whatever map the JSON holds (serde checks no length)
LoadableStores ==
    { EmptyStore,
      [n \in {"a"} |-> CustomPreset("a", Image(ImageSize, 1))],
      [n \in {"a"} |-> CustomPreset("a", BadImage)] }

\* (cpu, ram) as Stats::cpu_usage / ram_usage return them
Samples == {<<57, 23>>}

\* (hour, minute) of Local::now()
Times == {<<13, 5>>}

\* get_battery_percentage() as u8
Batteries == {Some(15)}

BrightnessLevels == {DEFAULT_BRIGHTNESS, 255}

NoSend == [s \in Sides |-> <<>>]

NoWrite == [s \in Sides |-> "none"]

(***************************************************************************)
(* main.rs: the match on the preset string in update_metrics               *)
(***************************************************************************)
\* the clock and battery arms of the match, tabulated over the model's inputs
ClockFrames == [now \in Times |-> image_data_to_command(render_clock(now[1], now[2]))]

BatteryFrames == [battery \in Batteries |-> image_data_to_command(render_battery(battery))]

Command(mode, cpu, ram, frame, now, battery, store) ==
    CASE mode = "cpu" -> pattern_percentage(cpu)
      [] mode = "ram" -> pattern_percentage(ram)
      [] mode = "idle" -> idle_cmd(frame)
      [] mode = "clock" -> ClockFrames[now]
      [] mode = "battery" -> BatteryFrames[battery]
      [] mode = "gradient" -> pattern_gradient
      [] mode = "double_gradient" -> pattern_double_gradient
      [] mode = "zigzag" -> pattern_zigzag
      [] mode = "lotus_h" -> pattern_lotus_horizontal
      [] mode = "lotus_v" -> pattern_lotus_vertical
      [] mode = "full_brightness" -> pattern_full_brightness
      [] mode = "panic" -> pattern_panic
      [] OTHER -> LET found == get_preset(store, mode)
                  IN IF found.some THEN image_data_to_command(found.v) ELSE <<>>

(***************************************************************************)
(* Init: MyApp::default()                                                  *)
(***************************************************************************)
AppInit ==
    /\ connected = [s \in Sides |-> FALSE]
    /\ device = [s \in Sides |-> FALSE]
    /\ stats = FALSE
    /\ cpu_percent = 0
    /\ ram_percent = 0
    /\ preset = [s \in Sides |-> "idle"]
    /\ brightness = [s \in Sides |-> DEFAULT_BRIGHTNESS]
    /\ idle_frame = 0
    /\ presets \in LoadableStores
    /\ sent = NoSend
    /\ wrote = NoWrite
    /\ result = [op |-> "default"]
    /\ ticks = <<>>
    /\ picked = [s \in Sides |-> "builtin"]
    /\ saved = [n \in PresetNames |->
                  IF n \in DOMAIN presets
                  THEN [some |-> TRUE, v |-> presets[n].image_data, durable |-> TRUE]
                  ELSE None]

Init == AppInit /\ call = [fn |-> "none"]

(***************************************************************************)
(* Control surface: connect / disconnect / mode / brightness / preview     *)
(***************************************************************************)
\* connect_left / connect_right; the button is shown only while disconnected
connect(s, openOk, writeOk) ==
    /\ ~connected[s]
    /\ IF openOk
       THEN LET r == Device_send(brightness_cmd(brightness[s]), writeOk)
            IN /\ sent' = [NoSend EXCEPT ![s] = <<brightness_cmd(brightness[s])>>]
               /\ wrote' = [NoWrite EXCEPT ![s] = r.wrote]
               /\ device' = [device EXCEPT ![s] = TRUE]
               /\ connected' = [connected EXCEPT ![s] = TRUE]
               /\ stats' = TRUE
               /\ result' = [op |-> "connect", side |-> s, ret |-> "Ok"]
       ELSE /\ sent' = NoSend
            /\ wrote' = NoWrite
            /\ result' = [op |-> "connect", side |-> s, ret |-> "Err"]
            /\ UNCHANGED <<device, connected, stats>>
    /\ UNCHANGED <<cpu_percent, ram_percent, preset, brightness, idle_frame,
                   presets, ticks, saved, picked, call>>

\* a disconnect that drops the sampler whatever the other display's state
disconnect_drop_stats(s) ==
    /\ connected[s]
    /\ device' = [device EXCEPT ![s] = FALSE]
    /\ connected' = [connected EXCEPT ![s] = FALSE]
    /\ stats' = FALSE
    /\ sent' = NoSend
    /\ wrote' = NoWrite
    /\ result' = [op |-> "disconnect", side |-> s]
    /\ UNCHANGED <<cpu_percent, ram_percent, preset, brightness, idle_frame,
                   presets, ticks, saved, picked, call>>

\* a disconnect that clears the flag and keeps the handle
disconnect_keep_handle(s) ==
    /\ connected[s]
    /\ connected' = [connected EXCEPT ![s] = FALSE]
    /\ stats' = IF ~connected[Other(s)] THEN FALSE ELSE stats
    /\ sent' = NoSend
    /\ wrote' = NoWrite
    /\ result' = [op |-> "disconnect", side |-> s]
    /\ UNCHANGED <<device, cpu_percent, ram_percent, preset, brightness, idle_frame,
                   presets, ticks, saved, picked, call>>

\* disconnect_left / disconnect_right; the button is shown only while connected
disconnect(s) ==
    /\ connected[s]
    /\ device' = [device EXCEPT ![s] = FALSE]
    /\ connected' = [connected EXCEPT ![s] = FALSE]
    /\ stats' = IF ~connected[Other(s)] THEN FALSE ELSE stats
    /\ sent' = NoSend
    /\ wrote' = NoWrite
    /\ result' = [op |-> "disconnect", side |-> s]
    /\ UNCHANGED <<cpu_percent, ram_percent, preset, brightness, idle_frame,
                   presets, ticks, saved, picked, call>>

\* the preset combo box of a connected display: one entry per built-in mode, then
\* one per name of list_presets(); either kind stores its string in left/right_preset
select_preset(s, mode, entry) ==
    /\ connected[s]
    /\ \/ entry = "builtin" /\ mode \in BuiltInModes
       \/ entry = "custom" /\ mode \in list_presets(presets)
    /\ preset' = [preset EXCEPT ![s] = mode]
    /\ picked' = [picked EXCEPT ![s] = entry]
    /\ sent' = NoSend
    /\ wrote' = NoWrite
    /\ result' = [op |-> "select_preset", side |-> s]
    /\ UNCHANGED <<connected, device, stats, cpu_percent, ram_percent, brightness,
                   idle_frame, presets, ticks, saved, call>>

\* the brightness slider of a connected display, then send_left/right_brightness
set_brightness(s, level, writeOk) ==
    /\ connected[s]
    /\ level # brightness[s]
    /\ brightness' = [brightness EXCEPT ![s] = level]
    /\ IF device[s]
       THEN /\ sent' = [NoSend EXCEPT ![s] = <<brightness_cmd(level)>>]
            /\ wrote' = [NoWrite EXCEPT ![s] = Device_send(brightness_cmd(level), writeOk).wrote]
       ELSE /\ sent' = NoSend
            /\ wrote' = NoWrite
    /\ result' = [op |-> "set_brightness", side |-> s]
    /\ UNCHANGED <<connected, device, stats, cpu_percent, ram_percent, preset,
                   idle_frame, presets, ticks, saved, picked, call>>

\* "Preview on Left/Right": sends the editor image's command, empty or not
preview(s, editor_image, writeOk) ==
    /\ connected[s]
    /\ device[s]
    /\ LET command == image_data_to_command(editor_image)
       IN /\ sent' = [NoSend EXCEPT ![s] = <<command>>]
          /\ wrote' = [NoWrite EXCEPT ![s] = Device_send(command, writeOk).wrote]
    /\ result' = [op |-> "preview", side |-> s]
    /\ UNCHANGED <<connected, device, stats, cpu_percent, ram_percent, preset, brightness,
                   idle_frame, presets, ticks, saved, picked, call>>

(***************************************************************************)
(* Scheduler tick: MyApp::update_metrics, called from update() while a     *)
(* display is connected                                                    *)
(***************************************************************************)
\* a scheduler that ticks whether or not a display is connected
TickDue_always == TRUE

\* update(): `if self.left_connected || self.right_connected { ... self.update_metrics() }`
TickDue == connected["left"] \/ connected["right"]

\* one `if let Some(dev) ... { let command = match ...; if !command.is_empty()
\* { dev.send(command); } }` block; `reached` is whether control gets to it
ServiceBlock(s, reached, command, writeOk) ==
    IF reached /\ device[s] /\ command # <<>>
    THEN LET r == Device_send(command, writeOk)
         IN [sent |-> <<command>>, wrote |-> r.wrote, ret |-> r.ret, unwound |-> r.unwound]
    ELSE [sent |-> <<>>, wrote |-> "none", ret |-> "none", unwound |-> FALSE]

\* u8::wrapping_add
wrapping_add(a, b) == (a + b) % U8

\* the newest HistLen ticks
Remember(history, entry) ==
    LET all == Append(history, entry)
    IN IF Len(all) > HistLen THEN Tail(all) ELSE all

update_metrics(sample, now, battery, writeOk) ==
    /\ TickDue
    /\ LET frame == wrapping_add(idle_frame, 1)
           cpu == IF stats THEN sample[1] ELSE cpu_percent
           ram == IF stats THEN sample[2] ELSE ram_percent
           left == ServiceBlock("left", stats,
                       Command(preset["left"], cpu, ram, frame, now, battery, presets),
                       writeOk["left"])
           right == ServiceBlock("right", stats /\ ~left.unwound,
                       Command(preset["right"], cpu, ram, frame, now, battery, presets),
                       writeOk["right"])
           out == [s \in Sides |-> IF s = "left" THEN left ELSE right]
       IN /\ idle_frame' = frame
          /\ cpu_percent' = cpu
          /\ ram_percent' = ram
          /\ sent' = [s \in Sides |-> out[s].sent]
          /\ wrote' = [s \in Sides |-> out[s].wrote]
          /\ result' = [op |-> "update_metrics", send_ret |-> [s \in Sides |-> out[s].ret],
                        sample |-> IF stats THEN Some(sample) ELSE None]
          /\ ticks' = Remember(ticks, [frame |-> frame, pattern |-> IdlePattern(frame)])
    /\ UNCHANGED <<connected, device, stats, preset, brightness, presets, saved, picked, call>>

(***************************************************************************)
(* update_metrics statement by statement: the Mutex guards it takes and     *)
(* drops.  `call` holds the position (pc), the guards alive (held), the     *)
(* lock / send / unlock events so far (log) and the tick's inputs.  The UI  *)
(* thread is the only thread: no handler runs between two statements.       *)
(***************************************************************************)
Running == call.fn = "update_metrics"

At(stmt, s) == Running /\ call.pc = [stmt |-> stmt, side |-> s]

Event(ev, s) == [ev |-> ev, side |-> s]

\* a block whose guard lives on to the end of the function
unlock_at_return(held, s) == held

\* the guard `dev` (or `stats`) goes out of scope at the end of its `if let` block
unlock(held, s) == held \ {s}

\* the statement after the block of display s
AfterBlock(s) == IF s = "left" THEN [stmt |-> "lock", side |-> "right"]
                 ELSE [stmt |-> "unlock", side |-> "stats"]

\* self.idle_frame = self.idle_frame.wrapping_add(1);
tick_begin(sample, now, battery, writeOk) ==
    /\ call.fn = "none"
    /\ TickDue
    /\ idle_frame' = wrapping_add(idle_frame, 1)
    /\ ticks' = Remember(ticks, [frame |-> idle_frame', pattern |-> IdlePattern(idle_frame')])
    /\ call' = [fn |-> "update_metrics", pc |-> [stmt |-> "lock", side |-> "stats"],
                held |-> {}, log |-> <<>>, sample |-> sample, now |-> now,
                battery |-> battery, writeOk |-> writeOk,
                send_ret |-> [s \in Sides |-> "none"], sampled |-> None]
    /\ sent' = NoSend
    /\ wrote' = NoWrite
    /\ result' = [op |-> "update_metrics_running"]
    /\ UNCHANGED <<connected, device, stats, cpu_percent, ram_percent, preset, brightness,
                   presets, saved, picked>>

\* if let Some(stats_arc) = &self.stats { if let Ok(mut stats) = stats_arc.lock() {
\*     self.cpu_percent = stats.cpu_usage(); self.ram_percent = stats.ram_usage();
tick_lock_stats ==
    /\ At("lock", "stats")
    /\ IF stats
       THEN /\ cpu_percent' = call.sample[1]
            /\ ram_percent' = call.sample[2]
            /\ call' = [call EXCEPT !.held = @ \cup {"stats"},
                                    !.log = Append(@, Event("lock", "stats")),
                                    !.sampled = Some(call.sample),
                                    !.pc = [stmt |-> "lock", side |-> "left"]]
       ELSE /\ call' = [call EXCEPT !.pc = [stmt |-> "return", side |-> "stats"]]
            /\ UNCHANGED <<cpu_percent, ram_percent>>
    /\ UNCHANGED <<connected, device, stats, preset, brightness, idle_frame, presets,
                   sent, wrote, result, ticks, saved, picked>>

\* if let Some(dev_arc) = &self.<s>_device { if let Ok(mut dev) = dev_arc.lock() {
tick_lock(s) ==
    /\ At("lock", s)
    /\ call' = IF device[s]
               THEN [call EXCEPT !.held = @ \cup {s},
                                 !.log = Append(@, Event("lock", s)),
                                 !.pc = [stmt |-> "send", side |-> s]]
               ELSE [call EXCEPT !.pc = AfterBlock(s)]
    /\ UNCHANGED appVars

\* let command = match ...; if !command.is_empty() { dev.send(command); }
tick_send(s) ==
    /\ At("send", s)
    /\ LET command == Command(preset[s], cpu_percent, ram_percent, idle_frame,
                              call.now, call.battery, presets)
           r == ServiceBlock(s, TRUE, command, call.writeOk[s])
       IN /\ sent' = [sent EXCEPT ![s] = r.sent]
          /\ wrote' = [wrote EXCEPT ![s] = r.wrote]
          /\ call' = [call EXCEPT !.log = IF r.sent = <<>> THEN @ ELSE Append(@, Event("send", s)),
                                  !.send_ret[s] = r.ret,
                                  !.pc = [stmt |-> "unlock", side |-> s]]
    /\ UNCHANGED <<connected, device, stats, cpu_percent, ram_percent, preset, brightness,
                   idle_frame, presets, result, ticks, saved, picked>>

\* the closing braces of the block of display s
tick_unlock(s) ==
    /\ At("unlock", s)
    /\ call' = [call EXCEPT !.held = unlock(@, s),
                            !.log = Append(@, Event("unlock", s)),
                            !.pc = AfterBlock(s)]
    /\ UNCHANGED appVars

\* the closing braces of the stats block
tick_unlock_stats ==
    /\ At("unlock", "stats")
    /\ call' = [call EXCEPT !.held = {},
                            !.log = Append(@, Event("unlock", "stats")),
                            !.pc = [stmt |-> "return", side |-> "stats"]]
    /\ UNCHANGED appVars

\* the end of update_metrics: back in update()
tick_return ==
    /\ At("return", "stats")
    /\ result' = [op |-> "update_metrics", send_ret |-> call.send_ret, sample |-> call.sampled]
    /\ call' = [fn |-> "none"]
    /\ UNCHANGED <<connected, device, stats, cpu_percent, ram_percent, preset, brightness,
                   idle_frame, presets, sent, wrote, ticks, saved, picked>>

(***************************************************************************)
(* Preset store operations (the editor's Save Preset / Delete Preset)      *)
(***************************************************************************)
SavePreset(name, image_data, persistOk) ==
    /\ LET r == save_preset(presets, name, image_data, persistOk)
       IN /\ presets' = r.store
          /\ result' = [op |-> "save_preset", name |-> name, image_data |-> image_data,
                        present |-> name \in DOMAIN presets,
                        ret |-> r.ret, persist |-> r.persist]
    /\ saved' = IF Len(image_data) = ImageSize
                THEN [saved EXCEPT ![name] =
                        [some |-> TRUE, v |-> image_data, durable |-> persistOk]]
                ELSE saved
    /\ sent' = NoSend
    /\ wrote' = NoWrite
    /\ UNCHANGED <<connected, device, stats, cpu_percent, ram_percent, preset, brightness,
                   idle_frame, ticks, picked, call>>

DeletePreset(name, persistOk) ==
    /\ LET r == delete_preset(presets, name, persistOk)
       IN /\ presets' = r.store
          /\ result' = [op |-> "delete_preset", name |-> name, present |-> name \in DOMAIN presets,
                        ret |-> r.ret, persist |-> r.persist]
    /\ saved' = [saved EXCEPT ![name] = None]
    /\ sent' = NoSend
    /\ wrote' = NoWrite
    /\ UNCHANGED <<connected, device, stats, cpu_percent, ram_percent, preset, brightness,
                   idle_frame, ticks, picked, call>>

(***************************************************************************)
(* Specifications                                                          *)
(***************************************************************************)
Connect == \E s \in Sides, openOk \in BOOLEAN, writeOk \in BOOLEAN : connect(s, openOk, writeOk)

Disconnect == \E s \in Sides : disconnect(s)

\* The left display is offered every mode; the right one, whose block in
\* update_metrics is the same text, a metric, the animation, a pattern and the presets.
ModesOffered(s) ==
    IF s = "left" THEN BuiltInModes \cup PresetNames
    ELSE {"idle", "cpu", "panic"} \cup PresetNames

Select == \E s \in Sides, entry \in {"builtin", "custom"} :
             \E mode \in ModesOffered(s) : select_preset(s, mode, entry)

Brightness == \E s \in Sides, level \in BrightnessLevels, writeOk \in BOOLEAN :
                 set_brightness(s, level, writeOk)

Preview == \E s \in Sides, image \in EditorImages, writeOk \in BOOLEAN :
              preview(s, image, writeOk)

AnyTick == \E sample \in Samples, now \in Times, battery \in Batteries,
              writeOk \in [Sides -> BOOLEAN] :
              update_metrics(sample, now, battery, writeOk)

Tick == idle_frame < MaxTicks /\ AnyTick

Save == \E name \in PresetNames, image \in EditorImages, persistOk \in BOOLEAN :
           SavePreset(name, image, persistOk)

Delete == \E name \in PresetNames, persistOk \in BOOLEAN : DeletePreset(name, persistOk)

\* the two displays under the scheduler (the store as loaded)
Next == Connect \/ Disconnect \/ Select \/ Tick

Spec == Init /\ [][Next]_vars

\* the control surface of the two displays: connections, brightness, preview, with
\* the scheduler ticking in between
NextControl == Connect \/ Disconnect \/ Brightness \/ Preview \/ Tick

SpecControl == Init /\ [][NextControl]_vars

\* the idle animation over the whole range of the counter: connects and ticks, no cap
NextIdle == Connect \/ AnyTick

SpecIdle == Init /\ [][NextIdle]_vars

\* the preset store under the editor, with the left display showing a preset
StoreConnect == \E writeOk \in BOOLEAN : connect("left", TRUE, writeOk)

StoreSelect == \E mode \in PresetNames : select_preset("left", mode, "custom")

StoreTick == /\ idle_frame < MaxTicks
             /\ \E sample \in Samples, now \in Times, battery \in Batteries :
                   update_metrics(sample, now, battery, [s \in Sides |-> TRUE])

NextStore == Save \/ Delete \/ StoreConnect \/ StoreSelect \/ StoreTick

SpecStore == Init /\ [][NextStore]_vars

\* the encoder on its own: image_data_to_command applied to one image
TestLengths == {0, ImageSize - 1, ImageSize, ImageSize + 1}

InitEncode ==
    /\ AppInit
    /\ call \in {[fn |-> "image_data_to_command", arg |-> Image(len, seed),
                   done |-> FALSE, ret |-> <<>>] : len \in TestLengths, seed \in 1..MaxSeed}

ApplyEncode ==
    /\ call.fn = "image_data_to_command"
    /\ ~call.done
    /\ call' = [call EXCEPT !.done = TRUE, !.ret = image_data_to_command(call.arg)]
    /\ UNCHANGED appVars

SpecEncode == InitEncode /\ [][ApplyEncode]_vars

\* the metric modes under raw sampler readings: below 0, within and above 100,
\* and a machine reporting no memory at all
RawSamples ==
    { [usage |-> -1, used_memory |-> 5, total_memory |-> 0],
      [usage |-> 57, used_memory |-> 23, total_memory |-> 100],
      [usage |-> 250, used_memory |-> 300, total_memory |-> 100] }

MetricSelect == \E s \in Sides, mode \in {"cpu", "ram", "idle"} : select_preset(s, mode, "builtin")

MetricTick ==
    /\ idle_frame < MaxTicks
    /\ \E raw \in RawSamples, now \in Times, battery \in Batteries, writeOk \in [Sides -> BOOLEAN] :
          update_metrics(<<cpu_usage(raw.usage), ram_usage(raw.used_memory, raw.total_memory)>>,
                         now, battery, writeOk)

NextMetrics == Connect \/ Disconnect \/ MetricSelect \/ MetricTick

SpecMetrics == Init /\ [][NextMetrics]_vars

\* two displays showing custom presets while the editor saves and deletes them
\* (every file write succeeding)
MissingSelect ==
    \/ \E s \in Sides, mode \in PresetNames : select_preset(s, mode, "custom")
    \/ select_preset("right", "cpu", "builtin")

MissingSave == \E name \in PresetNames : SavePreset(name, Image(ImageSize, 1), TRUE)

MissingDelete == \E name \in PresetNames : DeletePreset(name, TRUE)

NextMissing == Connect \/ MissingSelect \/ MissingSave \/ MissingDelete \/ StoreTick

SpecMissing == Init /\ [][NextMissing]_vars

\* the tick statement by statement, between handlers of the control surface
LockConnect == call.fn = "none" /\ Connect

LockDisconnect == call.fn = "none" /\ Disconnect

LockSelect ==
    /\ call.fn = "none"
    /\ \/ \E s \in Sides, mode \in {"idle", "cpu"} : select_preset(s, mode, "builtin")
       \/ \E s \in Sides : select_preset(s, "a", "custom")

TickBegin ==
    /\ idle_frame < MaxTicks
    /\ \E sample \in Samples, now \in Times, battery \in Batteries, writeOk \in [Sides -> BOOLEAN] :
          tick_begin(sample, now, battery, writeOk)

TickLock == \E s \in Sides : tick_lock(s)

TickSend == \E s \in Sides : tick_send(s)

TickUnlock == \E s \in Sides : tick_unlock(s)

NextLocks == \/ LockConnect \/ LockDisconnect \/ LockSelect
             \/ TickBegin \/ tick_lock_stats \/ TickLock \/ TickSend \/ TickUnlock
             \/ tick_unlock_stats \/ tick_return

SpecLocks == Init /\ [][NextLocks]_vars

\* the renderers on their own: one clock or one battery bitmap per behaviour
ClockHours == 0..23

ClockMinutes == 0..59

\* get_battery_percentage() as u8: None, or any u8 (the cast saturates)
BatteryReadings == {None} \cup {Some(p) : p \in 0..(U8 - 1)}

InitRender ==
    /\ AppInit
    /\ \/ call \in {[fn |-> "render_clock", arg |-> <<h, m>>, done |-> FALSE, ret |-> <<>>] :
                        h \in ClockHours, m \in ClockMinutes}
       \/ call \in {[fn |-> "render_battery", arg |-> reading, done |-> FALSE, ret |-> <<>>] :
                        reading \in BatteryReadings}

ApplyClock ==
    /\ call.fn = "render_clock"
    /\ ~call.done
    /\ call' = [call EXCEPT !.done = TRUE, !.ret = render_clock(call.arg[1], call.arg[2])]
    /\ UNCHANGED appVars

ApplyBattery ==
    /\ call.fn = "render_battery"
    /\ ~call.done
    /\ call' = [call EXCEPT !.done = TRUE, !.ret = render_battery(call.arg)]
    /\ UNCHANGED appVars

NextRender == ApplyClock \/ ApplyBattery

SpecRender == InitRender /\ [][NextRender]_vars

(***************************************************************************)
(* Properties                                                              *)
(***************************************************************************)
Ticked == result.op = "update_metrics"

\* what a display receives in a tick whose match yields `command`
Frames(command) == IF command = <<>> THEN <<>> ELSE <<command>>

\* the frame sequence the tick just taken renders for display s
Rendered(s) ==
    {Frames(Command(preset[s], cpu_percent, ram_percent, idle_frame, now, battery, presets)) :
        now \in Times, battery \in Batteries}

\* C1: a write that fails during a tick's send is reported to the caller of send
\* (and so can be recorded as the display's fault): the send returns an error.
C1_WriteFailureReported ==
    \A s \in Sides : (Ticked /\ wrote[s] = "failed") => result.send_ret[s] = "Err"

\* C2: in every tick with both displays connected each display is sent the frame
\* sequence rendered for its mode, whatever the outcome of the write to the other
\* display (a failed write to the left display does not skip the right one).
C2_FailureNeverSkipsOther ==
    (Ticked /\ connected["left"] /\ connected["right"]) =>
        \A s \in Sides : sent[s] \in Rendered(s)

\* C2 witness: a tick in which the write to the left display failed and the right
\* display was sent its frames.
C2_Witness ==
    /\ Ticked /\ connected["left"] /\ connected["right"]
    /\ wrote["left"] = "failed"
    /\ sent["right"] # <<>> /\ wrote["right"] = "ok"

\* C3: a tick with exactly one display connected, that display in a built-in mode,
\* sends exactly one frame sequence to it and nothing to the disconnected display,
\* whose mode, brightness and connection the tick leaves as they were.
C3_OneConnectedOneSequence ==
    [][\A c \in Sides :
          (AnyTick /\ connected[c] /\ ~connected[Other(c)] /\ preset[c] \in BuiltInModes) =>
              /\ Len(sent'[c]) = 1 /\ sent'[c][1] # <<>>
              /\ sent'[Other(c)] = <<>> /\ wrote'[Other(c)] = "none"
              /\ preset'[Other(c)] = preset[Other(c)]
              /\ brightness'[Other(c)] = brightness[Other(c)]
              /\ connected'[Other(c)] = connected[Other(c)]
              /\ device'[Other(c)] = device[Other(c)]]_vars

\* C3 witness: after a tick, one display connected in a built-in mode has been sent
\* a frame sequence while the other is disconnected.
C3_Witness ==
    /\ Ticked
    /\ \E c \in Sides : /\ connected[c] /\ ~connected[Other(c)]
                        /\ preset[c] \in BuiltInModes /\ Len(sent[c]) = 1

PatternModes == {"gradient", "double_gradient", "zigzag", "lotus_h", "lotus_v",
                 "full_brightness", "panic"}

\* the ids in the order the specification lists the patterns
ListedId(mode) ==
    CASE mode = "gradient" -> 1 [] mode = "double_gradient" -> 2 [] mode = "zigzag" -> 3
      [] mode = "lotus_h" -> 4 [] mode = "lotus_v" -> 5 [] mode = "full_brightness" -> 6
      [] mode = "panic" -> 7

\* the ids of the amended claim
AmendedId(mode) ==
    CASE mode = "gradient" -> 1 [] mode = "double_gradient" -> 2 [] mode = "lotus_h" -> 3
      [] mode = "zigzag" -> 4 [] mode = "full_brightness" -> 5 [] mode = "panic" -> 6
      [] mode = "lotus_v" -> 7

\* C5 as stated: a display in a static pattern mode is sent [0x32,0xAC,0x01,id] with
\* gradient=1, double-gradient=2, zigzag=3, lotus-horizontal=4, lotus-vertical=5,
\* full-brightness=6, panic=7.
C5_ListedOrderIds ==
    \A s \in Sides :
        (Ticked /\ connected[s] /\ preset[s] \in PatternModes) =>
            sent[s] = << <<50, 172, 1, ListedId(preset[s])>> >>

\* C5 amended: a display in a static pattern mode is sent [0x32,0xAC,0x01,id] with
\* gradient=1, double-gradient=2, lotus-horizontal=3, zigzag=4, full-brightness=5,
\* panic=6, lotus-vertical=7; the ids are pairwise distinct and within 1..7.
C5_PatternIds ==
    /\ \A s \in Sides :
          (Ticked /\ connected[s] /\ preset[s] \in PatternModes) =>
              sent[s] = << <<50, 172, 1, AmendedId(preset[s])>> >>
    /\ \A m1, m2 \in PatternModes :
          /\ Command(m1, 0, 0, 0, <<0, 0>>, None, EmptyStore)[4] \in 1..7
          /\ m1 # m2 => Command(m1, 0, 0, 0, <<0, 0>>, None, EmptyStore)
                          # Command(m2, 0, 0, 0, <<0, 0>>, None, EmptyStore)

\* C5 witness: a tick has sent the zigzag pattern frame to a display.
C5_Witness ==
    \E s \in Sides : Ticked /\ connected[s] /\ preset[s] = "zigzag" /\ Len(sent[s]) = 1

Newest == ticks[Len(ticks)]

\* what every tick does to the counter and what an idle display is sent
IdleSteps ==
    /\ idle_frame \in 0..255
    /\ Len(ticks) > 0 => Newest.frame = idle_frame
    /\ \A i \in 1..Len(ticks) :
          /\ ticks[i].pattern = (ticks[i].frame \div 4) % 3
          /\ i > 1 => ticks[i].frame = IF ticks[i - 1].frame = 255 THEN 0
                                       ELSE ticks[i - 1].frame + 1
    /\ \A s \in Sides :
          (Ticked /\ connected[s] /\ preset[s] = "idle") =>
              sent[s] = << <<50, 172, 20, Newest.pattern>> >>

\* C4 as stated: every tick advances the idle counter by 1, wrapping 255 to 0, and
\* the idle sub-index floor(counter/4) mod 3 at any tick equals the sub-index 12
\* ticks earlier, also over runs of ticks that span the wrap.
C4_Period12Always ==
    /\ IdleSteps
    /\ Len(ticks) >= 13 => Newest.pattern = ticks[Len(ticks) - 12].pattern

\* C4 amended: every tick advances the idle counter by 1, wrapping 255 to 0, and the
\* idle sub-index floor(counter/4) mod 3 at any tick equals the sub-index 12 ticks
\* earlier whenever the counter did not wrap within those 12 ticks (counter >= 12).
C4_Period12BetweenWraps ==
    /\ IdleSteps
    /\ (Len(ticks) >= 13 /\ Newest.frame >= 12) =>
          Newest.pattern = ticks[Len(ticks) - 12].pattern

\* C4 witness: the counter has wrapped and run 12 ticks on from 0, an idle display
\* being sent the sub-index of 12 ticks earlier.
C4_Witness ==
    /\ Len(ticks) >= 13 /\ Newest.frame = 12 /\ ticks[Len(ticks) - 12].frame = 0
    /\ \E s \in Sides : Ticked /\ connected[s] /\ preset[s] = "idle" /\ Len(sent[s]) = 1

\* C6: image_data_to_command(img) is empty when len(img) # 306; otherwise it is 346
\* bytes: for x = 0..8 the 38-byte frame [0x32,0xAC,0x07,x, img[x+0*9], ...,
\* img[x+33*9]], then the flush frame [0x32,0xAC,0x08,0x00].
C6_BitmapEncoding ==
    (call.fn = "image_data_to_command" /\ call.done) =>
        LET img == call.arg
            out == call.ret
        IN IF Len(img) # 306 THEN out = <<>>
           ELSE /\ Len(out) = 346
                /\ \A x \in 0..8 :
                      /\ SubSeq(out, 38 * x + 1, 38 * x + 4) = <<50, 172, 7, x>>
                      /\ \A y \in 0..33 : out[38 * x + 4 + y + 1] = img[(x + y * 9) + 1]
                /\ SubSeq(out, 343, 346) = <<50, 172, 8, 0>>

\* C6 witness: a 306-byte image has been encoded into 346 bytes.
C6_Witness ==
    call.fn = "image_data_to_command" /\ call.done /\ Len(call.arg) = 306 /\ Len(call.ret) = 346

\* C7: the store is a map keyed by name: get_preset(name) is the bitmap of the latest
\* accepted save of that name unless a delete of it followed, None otherwise, and
\* list_presets holds each such name once.
C7_StoreIsMapByName ==
    /\ \A name \in PresetNames :
          get_preset(presets, name) =
              IF saved[name].some THEN Some(saved[name].v) ELSE None
    /\ list_presets(presets) = {name \in PresetNames : saved[name].some}

\* C7 witness: a name that was in the store has been saved again and holds the new
\* bitmap, the list still naming it once.
C7_Witness ==
    /\ result.op = "save_preset" /\ result.present /\ result.ret = "Ok"
    /\ result.image_data = Image(ImageSize, 7)
    /\ get_preset(presets, result.name) = Some(result.image_data)
    /\ Cardinality(list_presets(presets)) = 1

\* C8: save_preset with a bitmap whose length is not 306 returns the size error,
\* leaves the map as it was and attempts no persistence write.
C8_SizeMismatchLeavesStore ==
    [][\A name \in PresetNames, image \in EditorImages, persistOk \in BOOLEAN :
          (SavePreset(name, image, persistOk) /\ Len(image) # 306) =>
              /\ result'.ret = "ErrSize"
              /\ presets' = presets
              /\ result'.persist = "none"]_vars

\* C8 witness: a wrong-size save under a name already in the store was rejected and
\* the entry is still there.
C8_Witness ==
    /\ result.op = "save_preset" /\ Len(result.image_data) # 306 /\ result.ret = "ErrSize"
    /\ result.present /\ result.name \in DOMAIN presets

\* C9: delete_preset of a name that is not in the store returns success and leaves
\* the map unchanged, whatever the outcome of the persistence write.
C9_DeleteMissingSucceeds ==
    [][\A name \in PresetNames, persistOk \in BOOLEAN :
          (DeletePreset(name, persistOk) /\ name \notin DOMAIN presets) =>
              /\ result'.ret = "Ok"
              /\ presets' = presets]_vars

\* C10: a save_preset of a 306-byte bitmap whose persistence write fails returns an
\* error with the new entry already in the map (get_preset returns the new bitmap),
\* and a tick for a display whose mode is that name (picked among the custom
\* presets) sends that bitmap.
C10_UnpersistedEntryIsShown ==
    /\ (result.op = "save_preset" /\ result.persist = "failed") =>
          /\ result.ret = "ErrPersist"
          /\ get_preset(presets, result.name) = Some(result.image_data)
    /\ \A s \in Sides :
          (/\ Ticked /\ connected[s] /\ picked[s] = "custom" /\ preset[s] \in PresetNames
           /\ saved[preset[s]].some /\ ~saved[preset[s]].durable) =>
              sent[s] = <<image_data_to_command(saved[preset[s]].v)>>

\* C10 with the names that are also built-in modes left out (not the claim: the
\* part of it that the code keeps).
C10_ExceptBuiltInNames ==
    /\ (result.op = "save_preset" /\ result.persist = "failed") =>
          /\ result.ret = "ErrPersist"
          /\ get_preset(presets, result.name) = Some(result.image_data)
    /\ \A s \in Sides :
          (/\ Ticked /\ connected[s] /\ picked[s] = "custom"
           /\ preset[s] \in PresetNames \ BuiltInModes
           /\ saved[preset[s]].some /\ ~saved[preset[s]].durable) =>
              sent[s] = <<image_data_to_command(saved[preset[s]].v)>>

\* the cell at row r, column c (0-based) of a bitmap
Cell(img, r, c) == img[r * 9 + c + 1]

\* row k (0 = top) of the 8-row block of n: bit 7-k, 200 when set and 30 when clear
BlockCell(n, k) == IF (n \div (2 ^ (7 - k))) % 2 = 1 THEN 200 ELSE 30

RECURSIVE DecodeFrom(_, _, _)
\* the number read back from rows row0+k..row0+7 of column 0, a cell of 200 being a 1
DecodeFrom(img, row0, k) ==
    IF k > 7 THEN 0
    ELSE (IF Cell(img, row0 + k, 0) = 200 THEN 2 ^ (7 - k) ELSE 0) + DecodeFrom(img, row0, k + 1)

DecodeBlock(img, row0) == DecodeFrom(img, row0, 0)

\* C11: for every hour in 0..23 and minute in 0..59 the clock bitmap is 306 bytes;
\* columns 0 and 1 of rows 0..7 hold the hour as 8 bits, most significant at row 0
\* (200 set, 30 clear), columns 0 and 1 of rows 17..24 hold the minute the same way,
\* every other cell is 0, and decoding the two blocks gives back (hour, minute).
C11_ClockBitmap ==
    (call.fn = "render_clock" /\ call.done) =>
        LET hour == call.arg[1]
            minute == call.arg[2]
            img == call.ret
        IN /\ Len(img) = 306
           /\ \A r \in 0..33, c \in 0..8 :
                 Cell(img, r, c) =
                     IF c < 2 /\ r \in 0..7 THEN BlockCell(hour, r)
                     ELSE IF c < 2 /\ r \in 17..24 THEN BlockCell(minute, r - 17)
                     ELSE 0
           /\ DecodeBlock(img, 0) = hour
           /\ DecodeBlock(img, 17) = minute

\* C11 witness: the clock of 13:05 has been rendered and its blocks decode to 13 and 5.
C11_Witness ==
    /\ call.fn = "render_clock" /\ call.done /\ call.arg = <<13, 5>>
    /\ DecodeBlock(call.ret, 0) = 13 /\ DecodeBlock(call.ret, 17) = 5

C13_MetricFrames ==
    /\ cpu_percent \in 0..100
    /\ ram_percent \in 0..100
    /\ \A s \in Sides :
          (Ticked /\ connected[s] /\ preset[s] \in {"cpu", "ram"}) =>
              /\ result.sample.some
              /\ LET p == IF preset[s] = "cpu" THEN result.sample.v[1] ELSE result.sample.v[2]
                 IN /\ p \in 0..100
                    /\ sent[s] = << <<50, 172, 1, 0, p>> >>
    /\ (/\ Ticked /\ connected["left"] /\ connected["right"]
        /\ preset["left"] = preset["right"] /\ preset["left"] \in {"cpu", "ram"}) =>
           sent["left"] = sent["right"]

\* C13 witness: a tick whose CPU reading was above 100 has sent both displays, both
\* in cpu mode, the same frame with percentage 100.
C13_Witness ==
    /\ Ticked /\ connected["left"] /\ connected["right"]
    /\ preset["left"] = "cpu" /\ preset["right"] = "cpu"
    /\ sent["left"] = << <<50, 172, 1, 0, 100>> >>
    /\ sent["right"] = sent["left"]

\* display s shows a custom preset that the store does not hold
ShowsMissing(s) == connected[s] /\ picked[s] = "custom" /\ preset[s] \notin DOMAIN presets

\* in the step just taken display s was serviced as its mode asks
ServicedNormally(s) ==
    IF connected[s]
    THEN \E now \in Times, battery \in Batteries :
            sent'[s] = Frames(Command(preset[s], cpu_percent', ram_percent', idle_frame',
                                      now, battery, presets))
    ELSE sent'[s] = <<>>

\* what a tick does for a display s that shows a missing custom preset
MissingIsNoOp(s) ==
    /\ sent'[s] = <<>>
    /\ wrote'[s] = "none"
    /\ result'.send_ret[s] = "none"
    /\ connected'[s] /\ device'[s]
    /\ ServicedNormally(Other(s))

\* C14: when a connected display's mode names a custom preset that is not in the
\* store, a tick sends that display no bytes, raises no error, leaves it connected,
\* and services the other display normally.
C14_MissingPresetIsNoOp ==
    [][\A s \in Sides : (AnyTick /\ ShowsMissing(s)) => MissingIsNoOp(s)]_vars

\* C14 with the names that are also built-in modes left out (not the claim: the
\* part of it that the code keeps).
C14_ExceptBuiltInNames ==
    [][\A s \in Sides :
          (AnyTick /\ ShowsMissing(s) /\ preset[s] \notin BuiltInModes) => MissingIsNoOp(s)]_vars

\* a tick has passed over a display showing a deleted preset while the other display
\* was sent a metric frame
C14_Reached ==
    /\ Ticked /\ ShowsMissing("left") /\ preset["left"] = "a" /\ sent["left"] = <<>>
    /\ connected["right"] /\ preset["right"] = "cpu" /\ Len(sent["right"]) = 1

\* the positions in the tick's log of the events of display s
EventsOf(s) == {i \in 1..Len(call.log) : call.log[i].side = s}

\* C15: during a tick the left and the right device locks are never held together:
\* the left display is locked, rendered, sent to and unlocked before the right
\* display's lock is acquired, and the order is always left before right.
C15_DeviceLocksInSequence ==
    Running =>
        /\ ~({"left", "right"} \subseteq call.held)
        /\ \A i \in EventsOf("left"), j \in EventsOf("right") : i < j
        /\ \A s \in Sides :
              /\ s \in call.held <=>
                    /\ \E i \in EventsOf(s) : call.log[i].ev = "lock"
                    /\ \A i \in EventsOf(s) : call.log[i].ev # "unlock"
              /\ \A i \in EventsOf(s) :
                    call.log[i].ev = "send" => \E k \in EventsOf(s) : k < i /\ call.log[k].ev = "lock"

\* C15 witness: a tick with both displays connected is about to return, having
\* locked, sent to and unlocked the left display and then the right one.
C15_Witness ==
    /\ At("return", "stats")
    /\ call.log = <<Event("lock", "stats"),
                    Event("lock", "left"), Event("send", "left"), Event("unlock", "left"),
                    Event("lock", "right"), Event("send", "right"), Event("unlock", "right"),
                    Event("unlock", "stats")>>

\* the opcodes of the protocol table that core flows use
TableOpcodes == {0, 1, 3, 4, 7, 8, 19}

\* the length of a frame of the protocol table that starts at position i of bytes
TableFrameLen(bytes, i) ==
    CASE bytes[i + 2] = 1 -> (IF i + 3 <= Len(bytes) /\ bytes[i + 3] = 0 THEN 5 ELSE 4)
      [] bytes[i + 2] = 7 -> 38
      [] bytes[i + 2] = 19 -> 6
      [] OTHER -> 4

RECURSIVE TableFramesFrom(_, _)
\* bytes from position i on are whole frames of the protocol table, one after another
TableFramesFrom(bytes, i) ==
    IF i > Len(bytes) THEN TRUE
    ELSE /\ i + 2 <= Len(bytes)
         /\ bytes[i] = 50 /\ bytes[i + 1] = 172
         /\ bytes[i + 2] \in TableOpcodes
         /\ i + TableFrameLen(bytes, i) - 1 <= Len(bytes)
         /\ TableFramesFrom(bytes, i + TableFrameLen(bytes, i))

\* everything the last operation wrote to display s is frames of the protocol table
WritesTableFrames(s) == \A k \in 1..Len(sent[s]) : TableFramesFrom(sent[s][k], 1)

\* C16: every frame that a tick or a control action (connect, brightness change,
\* preview) writes to a device begins with 0x32,0xAC and has as third byte one of
\* the opcodes 0x00, 0x01, 0x03, 0x04, 0x07, 0x08, 0x13, in every mode, idle included.
C16_OnlyTableFrames == \A s \in Sides : WritesTableFrames(s)

\* C16 with the ticks of a display in idle mode left out (not the claim: the part of
\* it that the code keeps).
C16_ExceptIdleTicks ==
    \A s \in Sides : ~(Ticked /\ preset[s] = "idle") => WritesTableFrames(s)

\* a bitmap has been written as ten frames of the protocol table
C16_Reached ==
    \E s \in Sides : Len(sent[s]) = 1 /\ Len(sent[s][1]) = 346 /\ WritesTableFrames(s)

BothDisconnected == ~connected["left"] /\ ~connected["right"]

\* C17: the scheduler ticks only while a display is connected: from a state where
\* both displays are disconnected no step is a tick, the idle frame counter, the
\* metrics snapshot and both displays' mode and brightness stay as they are, and
\* nothing is sent and no display changes its connection unless a connect succeeds.
C17_NoTickWhileDisconnected ==
    [][BothDisconnected =>
          /\ ~AnyTick
          /\ idle_frame' = idle_frame /\ ticks' = ticks
          /\ cpu_percent' = cpu_percent /\ ram_percent' = ram_percent
          /\ preset' = preset /\ brightness' = brightness
          /\ (sent' # NoSend \/ connected' # connected \/ device' # device) =>
                (result'.op = "connect" /\ result'.ret = "Ok")]_vars

\* C17 witness: ticks have run, both displays were disconnected again and a connect
\* has just failed, the counter and the snapshot still those of the last tick.
C17_Witness ==
    /\ BothDisconnected /\ result.op = "connect" /\ result.ret = "Err"
    /\ Len(ticks) > 0 /\ idle_frame = Newest.frame /\ cpu_percent = 57
    /\ sent = NoSend

\* C18: a connect that succeeds leaves the display connected and the first frame
\* written to it, before any tick frame, is [0x32,0xAC,0x00,b], b its current
\* brightness (nothing is written to a display while it is disconnected); a connect
\* that fails leaves the display disconnected with no device handle, sends no bytes,
\* and leaves the other display's connection, mode and brightness, and everything
\* else the process holds, as they were.
C18_ConnectSendsBrightnessFirst ==
    [][\A s \in Sides :
          /\ (\E writeOk \in BOOLEAN : connect(s, TRUE, writeOk)) =>
                /\ connected'[s] /\ device'[s]
                /\ sent'[s] = << <<50, 172, 0, brightness[s]>> >>
                /\ brightness'[s] = brightness[s]
          /\ (~connected[s] /\ ~\E writeOk \in BOOLEAN : connect(s, TRUE, writeOk)) =>
                sent'[s] = <<>> /\ wrote'[s] = "none"
          /\ (\E writeOk \in BOOLEAN : connect(s, FALSE, writeOk)) =>
                /\ ~connected'[s] /\ ~device'[s]
                /\ sent' = NoSend /\ wrote' = NoWrite
                /\ connected'[Other(s)] = connected[Other(s)]
                /\ device'[Other(s)] = device[Other(s)]
                /\ preset' = preset /\ brightness' = brightness
                /\ stats' = stats /\ idle_frame' = idle_frame /\ presets' = presets]_vars

\* C18 witness: the right display, whose brightness had been set to 255 before it was
\* disconnected, has been connected again next to a connected left display that has
\* had its ticks, and was sent the brightness frame with 255.
C18_Witness ==
    /\ result.op = "connect" /\ result.side = "right" /\ result.ret = "Ok"
    /\ connected["right"] /\ connected["left"] /\ Len(ticks) > 0
    /\ sent["right"] = << <<50, 172, 0, 255>> >>

\* a connect has failed next to a connected display whose brightness is 255
C18_FailureReached ==
    /\ result.op = "connect" /\ result.ret = "Err" /\ ~connected[result.side]
    /\ connected[Other(result.side)] /\ brightness[Other(result.side)] = 255

\* C19: after any sequence of connects (succeeding or failing), disconnects and ticks
\* each display's connected flag is true exactly when its device handle is present,
\* and the metrics sampler exists exactly when a display is connected, so that a tick
\* that runs finds the sampler and samples.
C19_FlagsHandlesSampler ==
    /\ \A s \in Sides : connected[s] <=> device[s]
    /\ stats <=> (connected["left"] \/ connected["right"])
    /\ TickDue => stats
    /\ Ticked => result.sample.some

\* C19 witness: with both displays connected and ticked, one was disconnected: the
\* other still has its flag, its handle and the sampler.
C19_Witness ==
    /\ result.op = "disconnect" /\ Len(ticks) > 0
    /\ ~connected[result.side] /\ ~device[result.side]
    /\ connected[Other(result.side)] /\ device[Other(result.side)] /\ stats

\* every bitmap that store holds, and so every one get_preset can return, is 306 bytes
AllFullSize(store) ==
    \A name \in list_presets(store) :
        get_preset(store, name).some /\ Len(get_preset(store, name).v) = 306

\* C20: after any sequence of load_from_file, save_preset and delete_preset every
\* bitmap held in the preset store, and so every bitmap get_preset returns, is
\* exactly 306 bytes, whatever the persisted file holds.
C20_StoredBitmapsAreFullSize == AllFullSize(presets)

\* C20 for save_preset and delete_preset alone (not the claim: the part of it that the
\* code keeps): neither puts a bitmap of another size into a store that has none.
C20_SaveDeleteKeepFullSize ==
    [][AllFullSize(presets) => AllFullSize(presets')]_vars

\* a wrong-size save has been refused on a store of full-size bitmaps
C20_Reached ==
    /\ result.op = "save_preset" /\ result.ret = "ErrSize"
    /\ presets # EmptyStore /\ AllFullSize(presets)

\* what the tick just taken sends display s when it dispatches mode as a custom preset
CustomFrames(s) == Frames(image_data_to_command(get_preset(presets, preset[s]).v))

\* what the tick just taken sends display s when it dispatches mode as a built-in mode
BuiltInFrames(s) ==
    {Frames(Command(preset[s], cpu_percent, ram_percent, idle_frame, now, battery, EmptyStore)) :
        now \in Times, battery \in Batteries}

\* the dispatch of a tick for the names in `names`
DispatchKeepsKinds(names) ==
    \A s \in Sides :
        /\ (/\ Ticked /\ connected[s] /\ picked[s] = "custom"
            /\ preset[s] \in names /\ preset[s] \in list_presets(presets)) =>
               sent[s] = CustomFrames(s)
        /\ (Ticked /\ connected[s] /\ picked[s] = "builtin") =>
               sent[s] \in BuiltInFrames(s)

\* C21: a display whose mode was selected as a saved custom preset is sent that
\* preset's bitmap frames on a tick, under every name a preset can be saved as, a
\* name equal to a built-in mode name included; a display whose mode was selected as
\* a built-in mode is sent that mode's frames.
C21_DispatchKeepsKinds == DispatchKeepsKinds(PresetNames)

\* C21 with the names that are also built-in modes left out (not the claim: the
\* part of it that the code keeps).
C21_ExceptBuiltInNames == DispatchKeepsKinds(PresetNames \ BuiltInModes)

\* a tick has sent one display the bitmap of the custom preset "a" and the other the
\* frame of a built-in mode
C21_Reached ==
    /\ Ticked /\ connected["left"] /\ picked["left"] = "custom" /\ preset["left"] = "a"
    /\ Len(sent["left"]) = 1 /\ Len(sent["left"][1]) = 346
    /\ connected["right"] /\ picked["right"] = "builtin" /\ Len(sent["right"]) = 1

====
